---- MODULE Spec2Model ----
(***************************************************************************)
(* Little Man Computer: the assembler (assemble, Operand::get_value,       *)
(* Instruction::get_base) and the execution engine (ExecutionState::step,  *)
(* run) of src/src/lib.rs, as a state machine.                             *)
(*                                                                         *)
(* A behaviour is one use of the library: a parsed Program is assembled    *)
(* into a memory image, and the image is run, one iteration of run's loop  *)
(* per action, against an I/O handler that supplies any of Inputs and      *)
(* records what is printed.                                                *)
(***************************************************************************)
EXTENDS Integers, Sequences, FiniteSets, TLC

\* ------------------------------------------------------------ constants
\* [0; 100]: the size of the memory image.
MemSize == 100
\* The accumulator's range, as INP checks it and ADD/SUB wrap to it.
AccMax == 999
AccMin == -999
\* i16, the type of every word and register.
I16Max == 32767
I16Min == -32768
\* The HLT arm leaving pc at 0 instead of the sentinel.
HaltPcZero == 1 - 1
\* step's HLT arm: self.pc = -1.
HaltPc == -1

\* --------------------------------------------------------------- bounds
\* Longest program drawn from CoreAlphabet.
MaxProgLen == 3
\* Longest program drawn from AsmAlphabet.
MaxAsmLen == 2
\* Longest prefix of a program padded to MemSize instructions.
MaxPrefixLen == 1
\* Iterations of run's loop a behaviour may take.
MaxSteps == 100
\* Calls of get_input a behaviour may make.
MaxInputs == 2

\* ------------------------------------------------------------ data model
\* enum Label { LBL(String), None }
LabelNone == [tag |-> "None", name |-> ""]
LBL(n) == [tag |-> "LBL", name |-> n]

\* enum Operand { Value(i16), Label(String) }; OperandAbsent stands for the
\* variants INP, OUT, OTC, HLT, which carry none.
OperandValue(v) == [tag |-> "Value", val |-> v, name |-> ""]
OperandLabel(n) == [tag |-> "Label", val |-> 0, name |-> n]
OperandAbsent == [tag |-> "Absent", val |-> 0, name |-> ""]

\* enum Instruction
NoOperandOps == {"INP", "OUT", "OTC", "HLT"}
AddressOps == {"LDA", "STA", "ADD", "SUB"}
BranchOps == {"BRZ", "BRP", "BRA"}
OperandOps == AddressOps \cup BranchOps \cup {"DAT"}
Instr(op, operand) == [op |-> op, operand |-> operand]
Bare(op) == Instr(op, OperandAbsent)

\* One element of Program = Vec<(Label, Instruction)>.
Pair(label, instr) == [label |-> label, instr |-> instr]

\* enum Output { Char(char), Int(i16) }; a char is held as its code.
OutInt(v) == [tag |-> "Int", val |-> v]
OutChar(c) == [tag |-> "Char", val |-> c]

\* The Err(String) values of the library, as the message's kind and the
\* label or word it is formatted with.
NoError == [kind |-> "", label |-> "", word |-> 0]
InvalidLabel(n) == [kind |-> "Invalid label", label |-> n, word |-> 0]
NumberOutOfRange == [kind |-> "Number out of range", label |-> "", word |-> 0]
InvalidInstruction(w) == [kind |-> "Invalid instruction", label |-> "", word |-> w]

\* ------------------------------------------------------- i16 arithmetic
\* The value an i16 holds after a wrapping operation yields x.
WrapI16(x) == ((x - I16Min) % (I16Max - I16Min + 1)) + I16Min
\* a + b on i16. With overflow checks (a debug build) an overflow panics;
\* without them (a release build) the result wraps.
AddI16(a, b, checked) ==
    IF a + b >= I16Min /\ a + b <= I16Max
    THEN [panic |-> FALSE, val |-> a + b]
    ELSE [panic |-> checked, val |-> WrapI16(a + b)]
\* a - b on i16, likewise.
SubI16(a, b, checked) ==
    IF a - b >= I16Min /\ a - b <= I16Max
    THEN [panic |-> FALSE, val |-> a - b]
    ELSE [panic |-> checked, val |-> WrapI16(a - b)]

\* ------------------------------------------------------------ assembler
\* get_base with the bases of BRZ and BRP exchanged.
get_baseSwapped(instr) ==
    CASE instr.op = "LDA" -> 500
      [] instr.op = "STA" -> 300
      [] instr.op = "ADD" -> 100
      [] instr.op = "SUB" -> 200
      [] instr.op = "INP" -> 901
      [] instr.op = "OUT" -> 902
      [] instr.op = "OTC" -> 922
      [] instr.op = "HLT" -> 0
      [] instr.op = "BRZ" -> 800
      [] instr.op = "BRP" -> 700
      [] instr.op = "BRA" -> 600
      [] instr.op = "DAT" -> 0

\* get_base with LDA at 400, under STA.
get_baseLda400(instr) ==
    CASE instr.op = "LDA" -> 400
      [] instr.op = "STA" -> 300
      [] instr.op = "ADD" -> 100
      [] instr.op = "SUB" -> 200
      [] instr.op = "INP" -> 901
      [] instr.op = "OUT" -> 902
      [] instr.op = "OTC" -> 922
      [] instr.op = "HLT" -> 0
      [] instr.op = "BRZ" -> 700
      [] instr.op = "BRP" -> 800
      [] instr.op = "BRA" -> 600
      [] instr.op = "DAT" -> 0

\* Instruction::get_base
get_base(instr) ==
    CASE instr.op = "LDA" -> 500
      [] instr.op = "STA" -> 300
      [] instr.op = "ADD" -> 100
      [] instr.op = "SUB" -> 200
      [] instr.op = "INP" -> 901
      [] instr.op = "OUT" -> 902
      [] instr.op = "OTC" -> 922
      [] instr.op = "HLT" -> 0
      [] instr.op = "BRZ" -> 700
      [] instr.op = "BRP" -> 800
      [] instr.op = "BRA" -> 600
      [] instr.op = "DAT" -> 0

\* impl PartialEq for Label
LabelEq(a, b) ==
    CASE a.tag = "LBL" /\ b.tag = "LBL" -> a.name = b.name
      [] a.tag = "None" /\ b.tag = "None" -> TRUE
      [] OTHER -> FALSE

\* ScanLabels counting the pairs from 1.
RECURSIVE ScanLabelsOneBased(_, _, _, _)
ScanLabelsOneBased(program, lbl, idx, pos) ==
    IF idx > Len(program)
    THEN [ok |-> FALSE, val |-> 0, err |-> InvalidLabel(lbl)]
    ELSE IF LabelEq(program[idx].label, LBL(lbl))
         THEN [ok |-> TRUE, val |-> pos + 1, err |-> NoError]
         ELSE ScanLabelsOneBased(program, lbl, idx + 1, pos + 1)

\* ScanLabels giving address 0 to a label no pair carries.
RECURSIVE ScanLabelsDefaultZero(_, _, _, _)
ScanLabelsDefaultZero(program, lbl, idx, pos) ==
    IF idx > Len(program)
    THEN [ok |-> TRUE, val |-> 0, err |-> NoError]
    ELSE IF LabelEq(program[idx].label, LBL(lbl))
         THEN [ok |-> TRUE, val |-> pos, err |-> NoError]
         ELSE ScanLabelsDefaultZero(program, lbl, idx + 1, pos + 1)

\* ScanLabels returning the last pair that carries the label.
RECURSIVE ScanLabelsLast(_, _, _, _)
ScanLabelsLast(program, lbl, idx, pos) ==
    IF idx > Len(program)
    THEN [ok |-> FALSE, val |-> 0, err |-> InvalidLabel(lbl)]
    ELSE LET later == ScanLabelsLast(program, lbl, idx + 1, pos + 1)
         IN IF later.ok
            THEN later
            ELSE IF LabelEq(program[idx].label, LBL(lbl))
                 THEN [ok |-> TRUE, val |-> pos, err |-> NoError]
                 ELSE later

\* The loop of Operand::get_value over the program, from its idx-th pair
\* (1-based) with the counter at pos: Ok(pos) at the first pair whose label
\* equals LBL(lbl), Err when the pairs run out.
RECURSIVE ScanLabels(_, _, _, _)
ScanLabels(program, lbl, idx, pos) ==
    IF idx > Len(program)
    THEN [ok |-> FALSE, val |-> 0, err |-> InvalidLabel(lbl)]
    ELSE IF LabelEq(program[idx].label, LBL(lbl))
         THEN [ok |-> TRUE, val |-> pos, err |-> NoError]
         ELSE ScanLabels(program, lbl, idx + 1, pos + 1)

\* Operand::get_value
get_value(operand, program) ==
    IF operand.tag = "Value"
    THEN [ok |-> TRUE, val |-> operand.val, err |-> NoError]
    ELSE ScanLabels(program, operand.name, 1, 0)

\* The results of assemble: Ok(ram), Err(message), or a panic.
AsmOk(image) == [res |-> "Ok", ram |-> image, err |-> NoError]
AsmErr(e) == [res |-> "Err", ram |-> <<>>, err |-> e]
AsmPanic == [res |-> "Panic", ram |-> <<>>, err |-> NoError]
\* assemble has not been called yet.
NotAssembled == [res |-> "None", ram |-> <<>>, err |-> NoError]

\* The word assemble computes for one instruction (the match of its loop
\* body): [res, val, err].
EncodeWord(instruction, program, checked) ==
    IF instruction.op \in NoOperandOps
    THEN [res |-> "Ok", val |-> get_base(instruction), err |-> NoError]
    ELSE LET v == get_value(instruction.operand, program)
         IN IF ~v.ok
            THEN [res |-> "Err", val |-> 0, err |-> v.err]
            ELSE IF instruction.op = "DAT"
                 THEN [res |-> "Ok", val |-> v.val, err |-> NoError]
                 ELSE LET s == AddI16(get_base(instruction), v.val, checked)
                      IN IF s.panic
                         THEN [res |-> "Panic", val |-> 0, err |-> NoError]
                         ELSE [res |-> "Ok", val |-> s.val, err |-> NoError]

\* let mut ram = [0; 100]
ZeroRam == [a \in 0 .. MemSize - 1 |-> 0]

\* assemble starting from a memory full of OUT words instead of zeros.
assembleOnOut(program, checked) ==
    LET n == Len(program)
        w == [i \in 0 .. n - 1 |->
                  EncodeWord(program[i + 1].instr, program, checked)]
        failing == {i \in 0 .. n - 1 : w[i].res # "Ok" \/ i >= MemSize}
    IN IF failing = {}
       THEN AsmOk([a \in 0 .. MemSize - 1 |-> IF a < n THEN w[a].val ELSE 902])
       ELSE LET first == CHOOSE i \in failing : \A j \in failing : i <= j
            IN IF w[first].res = "Err"
               THEN AsmErr(w[first].err)
               ELSE AsmPanic

\* assemble. Its loop visits the pairs in order, i = 0, 1, ...: it computes
\* the word of pair i (an Err returns at once, an overflow panics) and then
\* stores it in ram[i], which panics for i >= 100. So the result is decided
\* by the first pair that fails, and without one every word is stored.
assemble(program, checked) ==
    LET n == Len(program)
        w == [i \in 0 .. n - 1 |->
                  EncodeWord(program[i + 1].instr, program, checked)]
        failing == {i \in 0 .. n - 1 : w[i].res # "Ok" \/ i >= MemSize}
    IN IF failing = {}
       THEN AsmOk([a \in 0 .. MemSize - 1 |-> IF a < n THEN w[a].val ELSE 0])
       ELSE LET first == CHOOSE i \in failing : \A j \in failing : i <= j
            IN IF w[first].res = "Err"
               THEN AsmErr(w[first].err)
               ELSE AsmPanic

\* ----------------------------------------------------- execution engine
\* struct ExecutionState
MkState(pc_, cir_, mar_, mdr_, acc_, ram_) ==
    [pc |-> pc_, cir |-> cir_, mar |-> mar_, mdr |-> mdr_, acc |-> acc_,
     ram |-> ram_]

\* The results of step: Ok(()), Err(message), or a panic; with the state it
\* leaves, the outputs it printed and whether it called get_input.
StepOk(st, out, read) ==
    [res |-> "Ok", err |-> NoError, st |-> st, out |-> out, read |-> read]
StepErr(e, st, read) ==
    [res |-> "Err", err |-> e, st |-> st, out |-> <<>>, read |-> read]
StepPanic(st) ==
    [res |-> "Panic", err |-> NoError, st |-> st, out |-> <<>>, read |-> FALSE]

\* Kind with the OUT arm taking 903 as well.
KindLoose(w) ==
    CASE w = 0 -> "HLT"
      [] w = 901 -> "INP"
      [] w = 902 \/ w = 903 -> "OUT"
      [] w = 922 -> "OTC"
      [] w >= 100 /\ w <= 199 -> "ADD"
      [] w >= 200 /\ w <= 299 -> "SUB"
      [] w >= 300 /\ w <= 399 -> "STA"
      [] w >= 500 /\ w <= 599 -> "LDA"
      [] w >= 600 /\ w <= 699 -> "BRA"
      [] w >= 700 /\ w <= 799 -> "BRZ"
      [] w >= 800 /\ w <= 899 -> "BRP"
      [] OTHER -> "Invalid"

\* The arms of step's match on cir, by the word they take.
Kind(w) ==
    CASE w = 0 -> "HLT"
      [] w = 901 -> "INP"
      [] w = 902 -> "OUT"
      [] w = 922 -> "OTC"
      [] w >= 100 /\ w <= 199 -> "ADD"
      [] w >= 200 /\ w <= 299 -> "SUB"
      [] w >= 300 /\ w <= 399 -> "STA"
      [] w >= 500 /\ w <= 599 -> "LDA"
      [] w >= 600 /\ w <= 699 -> "BRA"
      [] w >= 700 /\ w <= 799 -> "BRZ"
      [] w >= 800 /\ w <= 899 -> "BRP"
      [] OTHER -> "Invalid"

\* InAccRange with the bounds excluded.
InAccRangeOpen(v) == v > AccMin /\ v < AccMax

\* InAccRange one wider at each end.
InAccRangeWide(v) == v >= AccMin - 1 /\ v <= AccMax + 1

\* (-999..=999).contains(&res)
InAccRange(v) == v >= AccMin /\ v <= AccMax

\* WrapAfterAdd with the overflow landing one too high (the "- 1" dropped).
WrapAfterAddNoCarry(a) ==
    IF a > AccMax
    THEN LET diff == a - AccMax IN AccMin + diff
    ELSE IF a < AccMin
         THEN LET diff == AccMin - a IN AccMax - diff + 1
         ELSE a

\* The ADD arm's adjustment of acc after the addition: "handle overflow to
\* -999", else the symmetric branch.
WrapAfterAdd(a) ==
    IF a > AccMax
    THEN LET diff == a - AccMax IN AccMin + diff - 1
    ELSE IF a < AccMin
         THEN LET diff == AccMin - a IN AccMax - diff + 1
         ELSE a

\* WrapAfterSub handling the underflow only.
WrapAfterSubOneWay(a) ==
    IF a < AccMin
    THEN LET diff == AccMin - a IN AccMax - diff + 1
    ELSE a

\* The SUB arm's adjustment of acc after the subtraction: "handle underflow
\* to 999", else the symmetric branch.
WrapAfterSub(a) ==
    IF a < AccMin
    THEN LET diff == AccMin - a IN AccMax - diff + 1
    ELSE IF a > AccMax
         THEN LET diff == a - AccMax IN AccMin + diff - 1
         ELSE a

\* AsU8 taking the low 8 bits of the magnitude of acc.
AsU8Magnitude(a) == (IF a < 0 THEN -a ELSE a) % 256

\* self.acc as u8: the low 8 bits.
AsU8(a) == a % 256

\* The match of step on cir, on the state f the fetch has left.
Execute(f, input, checked) ==
    LET k == Kind(f.cir) IN
    CASE k = "HLT" -> StepOk([f EXCEPT !.pc = HaltPc], <<>>, FALSE)
      [] k = "INP" ->
           IF ~InAccRange(input)
           THEN StepErr(NumberOutOfRange, f, TRUE)
           ELSE StepOk([f EXCEPT !.acc = input], <<>>, TRUE)
      [] k = "OUT" -> StepOk(f, <<OutInt(f.acc)>>, FALSE)
      [] k = "OTC" -> StepOk(f, <<OutChar(AsU8(f.acc))>>, FALSE)
      [] k = "ADD" ->
           LET m == f.cir - 100
               sum == AddI16(f.acc, f.ram[m], checked)
           IN IF sum.panic
              THEN StepPanic([f EXCEPT !.mar = m])
              ELSE StepOk([f EXCEPT !.mar = m, !.acc = WrapAfterAdd(sum.val)],
                          <<>>, FALSE)
      [] k = "SUB" ->
           LET m == f.cir - 200
               dif == SubI16(f.acc, f.ram[m], checked)
           IN IF dif.panic
              THEN StepPanic([f EXCEPT !.mar = m])
              ELSE StepOk([f EXCEPT !.mar = m, !.acc = WrapAfterSub(dif.val)],
                          <<>>, FALSE)
      [] k = "STA" ->
           LET m == f.cir - 300
           IN StepOk([f EXCEPT !.mar = m, !.ram[m] = f.acc], <<>>, FALSE)
      [] k = "LDA" ->
           LET m == f.cir - 500
           IN StepOk([f EXCEPT !.mar = m, !.acc = f.ram[m]], <<>>, FALSE)
      [] k = "BRA" ->
           LET m == f.cir - 600
           IN StepOk([f EXCEPT !.mar = m, !.pc = m], <<>>, FALSE)
      [] k = "BRZ" ->
           LET m == f.cir - 700
           IN StepOk([f EXCEPT !.mar = m,
                               !.pc = IF f.acc = 0 THEN m ELSE f.pc],
                     <<>>, FALSE)
      [] k = "BRP" ->
           LET m == f.cir - 800
           IN StepOk([f EXCEPT !.mar = m,
                               !.pc = IF f.acc > 0 THEN m ELSE f.pc],
                     <<>>, FALSE)
      [] OTHER -> StepErr(InvalidInstruction(f.cir), f, FALSE)

\* step with a STA arm that sets mar and stores nothing.
stepStaNoStore(s, input, checked) ==
    IF s.pc < 0 \/ s.pc >= MemSize
    THEN StepPanic([s EXCEPT !.mar = s.pc, !.pc = s.pc + 1])
    ELSE LET f == [s EXCEPT !.mar = s.pc, !.pc = s.pc + 1,
                            !.mdr = s.ram[s.pc], !.cir = s.ram[s.pc]]
         IN IF Kind(f.cir) = "STA"
            THEN StepOk([f EXCEPT !.mar = f.cir - 300], <<>>, FALSE)
            ELSE Execute(f, input, checked)

\* step with a fetch that reads ram[pc] and leaves mar as it was.
stepMarStale(s, input, checked) ==
    IF s.pc < 0 \/ s.pc >= MemSize
    THEN StepPanic([s EXCEPT !.pc = s.pc + 1])
    ELSE Execute([s EXCEPT !.pc = s.pc + 1,
                           !.mdr = s.ram[s.pc], !.cir = s.ram[s.pc]],
                 input, checked)

\* step with a BRP arm that branches on acc >= 0.
stepBrpOnZero(s, input, checked) ==
    IF s.pc < 0 \/ s.pc >= MemSize
    THEN StepPanic([s EXCEPT !.mar = s.pc, !.pc = s.pc + 1])
    ELSE LET f == [s EXCEPT !.mar = s.pc, !.pc = s.pc + 1,
                            !.mdr = s.ram[s.pc], !.cir = s.ram[s.pc]]
         IN IF Kind(f.cir) = "BRP" /\ f.acc = 0
            THEN StepOk([f EXCEPT !.mar = f.cir - 800, !.pc = f.cir - 800],
                        <<>>, FALSE)
            ELSE Execute(f, input, checked)

\* step with a STA arm that moves acc into the cell and clears acc.
stepStaClearsAcc(s, input, checked) ==
    IF s.pc < 0 \/ s.pc >= MemSize
    THEN StepPanic([s EXCEPT !.mar = s.pc, !.pc = s.pc + 1])
    ELSE LET f == [s EXCEPT !.mar = s.pc, !.pc = s.pc + 1,
                            !.mdr = s.ram[s.pc], !.cir = s.ram[s.pc]]
         IN IF Kind(f.cir) = "STA"
            THEN StepOk([f EXCEPT !.mar = f.cir - 300,
                                  !.ram[f.cir - 300] = f.acc, !.acc = 0],
                        <<>>, FALSE)
            ELSE Execute(f, input, checked)

\* step with a fetch that leaves pc where it was.
stepNoAdvance(s, input, checked) ==
    IF s.pc < 0 \/ s.pc >= MemSize
    THEN StepPanic([s EXCEPT !.mar = s.pc])
    ELSE Execute([s EXCEPT !.mar = s.pc,
                           !.mdr = s.ram[s.pc], !.cir = s.ram[s.pc]],
                 input, checked)

\* ExecutionState::step on state s, where get_input would return input.
\* The fetch indexes ram with mar as usize: outside 0..99 it panics.
step(s, input, checked) ==
    IF s.pc < 0 \/ s.pc >= MemSize
    THEN StepPanic([s EXCEPT !.mar = s.pc, !.pc = s.pc + 1])
    ELSE Execute([s EXCEPT !.mar = s.pc, !.pc = s.pc + 1,
                           !.mdr = s.ram[s.pc], !.cir = s.ram[s.pc]],
                 input, checked)

\* ------------------------------------------------------ programs, inputs
\* What get_input may return: both bounds of the accumulator's range, the
\* values next to them outside it, and small values.
Inputs == {-1000, -999, 0, 2, 999, 1000}

\* Literals of DAT: a negative word, a small one, words no arm of step
\* takes (400, 900, 903), and one beyond the accumulator's range.
DataVals == {-2, 2, 400, 900, 903, 1000}
\* Those of them the short programs use.
CoreDataVals == {-2, 2, 1000}

\* Unlabelled instructions with literal operands: the arithmetic and the
\* moves on cell 2, the branches to cell 3.
ExecAlphabet ==
    {Pair(LabelNone, Bare(op)) : op \in NoOperandOps}
    \cup {Pair(LabelNone, Instr(op, OperandValue(2))) : op \in AddressOps}
    \cup {Pair(LabelNone, Instr(op, OperandValue(3))) : op \in BranchOps}
    \cup {Pair(LabelNone, Instr("DAT", OperandValue(d))) : d \in DataVals}

\* The part of ExecAlphabet the short programs are spelt in.
CoreAlphabet ==
    {Pair(LabelNone, Bare(op)) : op \in {"INP", "OUT"}}
    \cup {Pair(LabelNone, Instr(op, OperandValue(2))) : op \in AddressOps}
    \cup {Pair(LabelNone, Instr("BRP", OperandValue(3)))}
    \cup {Pair(LabelNone, Instr("DAT", OperandValue(d))) : d \in CoreDataVals}

\* What the programs that fill the memory begin with: an input, a store
\* into the code, a load, a forward branch.
PrefixAlphabet ==
    {Pair(LabelNone, Bare("INP")),
     Pair(LabelNone, Instr("STA", OperandValue(2))),
     Pair(LabelNone, Instr("LDA", OperandValue(2))),
     Pair(LabelNone, Instr("BRA", OperandValue(3)))}

\* Unlabelled instructions with label operands and without operand, and
\* labelled pairs: a HLT and a DAT of a label under each label.
LabelNames == {"a", "b"}
Labels == {LabelNone} \cup {LBL(n) : n \in LabelNames}
AsmAlphabet ==
    {Pair(LabelNone, Bare(op)) : op \in NoOperandOps}
    \cup {Pair(LabelNone, Instr(op, OperandLabel(n))) :
              op \in OperandOps, n \in LabelNames}
    \cup {Pair(LBL(n), Bare("HLT")) : n \in LabelNames}
    \cup {Pair(LBL(n), Instr("DAT", OperandLabel("b"))) : n \in LabelNames}

\* All sequences over S of length at most n.
RECURSIVE SeqsUpTo(_, _)
SeqsUpTo(S, n) ==
    IF n = 0
    THEN {<<>>}
    ELSE LET shorter == SeqsUpTo(S, n - 1)
         IN shorter \cup {Append(q, x) : q \in shorter, x \in S}

\* prefix followed by copies of filler, n pairs in all.
Padded(prefix, filler, n) ==
    [i \in 1 .. n |-> IF i <= Len(prefix) THEN prefix[i] ELSE filler]

\* Programs that fill the memory, and programs one pair too long for it.
LongPrograms ==
    {Padded(prefix, filler, n) :
         prefix \in SeqsUpTo(PrefixAlphabet, MaxPrefixLen),
         filler \in ExecAlphabet,
         n \in {MemSize, MemSize + 1}}

\* The sum program of the examples: it reads two numbers, keeps the first
\* in the cell x, adds it to the second and prints the result.
SumProgram ==
    <<Pair(LabelNone, Bare("INP")),
      Pair(LabelNone, Instr("STA", OperandLabel("x"))),
      Pair(LabelNone, Bare("INP")),
      Pair(LabelNone, Instr("ADD", OperandLabel("x"))),
      Pair(LabelNone, Bare("OUT")),
      Pair(LabelNone, Bare("HLT")),
      Pair(LBL("x"), Instr("DAT", OperandValue(0)))>>

\* What get_input may return to the sum program: the inputs of its tests,
\* and values whose sums leave the accumulator's range.
SumInputs == {-999, -2, 1, 2, 3, 4, 999, 1000}

\* Literal operands outside the memory: one below it, its size, and one
\* well beyond it.
FarVals == {-1, 100, 150}

\* One instruction that addresses or branches to a cell outside the memory.
FarPrograms ==
    {<<Pair(LabelNone, Instr(op, OperandValue(v)))>> :
         op \in AddressOps \cup BranchOps, v \in FarVals}

\* One instruction of PrefixAlphabet followed by a DAT of 0 (what DAT
\* without operand is parsed to).
DatZeroPrograms ==
    {<<x, Pair(LabelNone, Instr("DAT", OperandValue(0)))>> :
         x \in PrefixAlphabet}

Programs ==
    SeqsUpTo(CoreAlphabet, MaxProgLen)
    \cup SeqsUpTo(AsmAlphabet, MaxAsmLen)
    \cup LongPrograms
    \cup {SumProgram}
    \cup FarPrograms
    \cup DatZeroPrograms

\* The values the I/O handler may supply to a run of prog.
InputsOf(prog) == IF prog = SumProgram THEN SumInputs ELSE Inputs

\* ---------------------------------------------------------------- state
VARIABLES
    program,      \* the Program handed to assemble
    phase,        \* where the use of the library stands
    assembled,    \* what assemble returned
    pc, cir, mar, mdr, acc, ram,   \* run's ExecutionState
    outputs,      \* what print_output has been given, in order
    err,          \* the Err that assemble or run returned
    steps,        \* calls of step so far
    inputs        \* what get_input has returned, in order

vars == <<program, phase, assembled, pc, cir, mar, mdr, acc, ram, outputs,
          err, steps, inputs>>

regs == <<pc, cir, mar, mdr, acc, ram>>

\* The ExecutionState the registers hold.
State == MkState(pc, cir, mar, mdr, acc, ram)

Init ==
    /\ program \in Programs
    /\ phase = "parsed"
    /\ assembled = NotAssembled
    /\ pc = 0 /\ cir = 0 /\ mar = 0 /\ mdr = 0 /\ acc = 0
    /\ ram = ZeroRam
    /\ outputs = <<>>
    /\ err = NoError
    /\ steps = 0
    /\ inputs = <<>>

\* assemble(program), in a build with or without overflow checks.
Assemble ==
    /\ phase = "parsed"
    /\ \E checked \in BOOLEAN :
         LET r == assemble(program, checked)
         IN /\ assembled' = r
            /\ phase' = CASE r.res = "Ok" -> "assembled"
                          [] r.res = "Err" -> "asm_err"
                          [] OTHER -> "asm_panic"
            /\ err' = r.err
    /\ UNCHANGED <<program, regs, outputs, steps, inputs>>

\* run: the construction of the ExecutionState from the image.
RunStart ==
    /\ phase = "assembled"
    /\ phase' = "running"
    /\ pc' = 0 /\ cir' = 0 /\ mar' = 0 /\ mdr' = 0 /\ acc' = 0
    /\ ram' = assembled.ram
    /\ UNCHANGED <<program, assembled, outputs, err, steps, inputs>>

\* AfterStep without the break on pc == -1.
AfterStepNoSentinel(r) ==
    CASE r.res = "Panic" -> "run_panic"
      [] r.res = "Err" -> "run_err"
      [] r.st.pc > 99 -> "halted"
      [] OTHER -> "running"

\* AfterStep breaking one cell early, on pc >= 99.
AfterStepEarly(r) ==
    CASE r.res = "Panic" -> "run_panic"
      [] r.res = "Err" -> "run_err"
      [] r.st.pc = -1 -> "halted"
      [] r.st.pc >= 99 -> "halted"
      [] OTHER -> "running"

\* AfterStep breaking one cell late, on pc > 100.
AfterStepLate(r) ==
    CASE r.res = "Panic" -> "run_panic"
      [] r.res = "Err" -> "run_err"
      [] r.st.pc = -1 -> "halted"
      [] r.st.pc > 100 -> "halted"
      [] OTHER -> "running"

\* What run's loop does with the result r of step: state.step(..)? returns
\* an Err (a panic unwinds), pc == -1 breaks, pc > 99 breaks, and otherwise
\* the loop goes round; after a break run returns Ok(()).
AfterStep(r) ==
    CASE r.res = "Panic" -> "run_panic"
      [] r.res = "Err" -> "run_err"
      [] r.st.pc = -1 -> "halted"
      [] r.st.pc > 99 -> "halted"
      [] OTHER -> "running"

\* run's loop is about to call step, which will fetch a word of kind k.
Fetches(k) ==
    /\ phase = "running"
    /\ steps < MaxSteps
    /\ pc >= 0 /\ pc < MemSize
    /\ Kind(ram[pc]) = k

\* One iteration of run's loop on a word of kind k: step, then the return
\* of its Err, the break on pc == -1 and the break on pc > 99.
RunIter(k) ==
    /\ k = "INP" => Len(inputs) < MaxInputs
    /\ \E checked \in BOOLEAN :
       \E input \in (IF k = "INP" THEN InputsOf(program) ELSE {0}) :
         LET r == step(State, input, checked)
         IN /\ pc' = r.st.pc /\ cir' = r.st.cir /\ mar' = r.st.mar
            /\ mdr' = r.st.mdr /\ acc' = r.st.acc /\ ram' = r.st.ram
            /\ outputs' = outputs \o r.out
            /\ err' = r.err
            /\ inputs' = IF r.read THEN Append(inputs, input) ELSE inputs
            /\ phase' = AfterStep(r)
    /\ steps' = steps + 1
    /\ UNCHANGED <<program, assembled>>

RunHLT == Fetches("HLT") /\ RunIter("HLT")
RunINP == Fetches("INP") /\ RunIter("INP")
RunOUT == Fetches("OUT") /\ RunIter("OUT")
RunOTC == Fetches("OTC") /\ RunIter("OTC")
RunADD == Fetches("ADD") /\ RunIter("ADD")
RunSUB == Fetches("SUB") /\ RunIter("SUB")
RunSTA == Fetches("STA") /\ RunIter("STA")
RunLDA == Fetches("LDA") /\ RunIter("LDA")
RunBRA == Fetches("BRA") /\ RunIter("BRA")
RunBRZ == Fetches("BRZ") /\ RunIter("BRZ")
RunBRP == Fetches("BRP") /\ RunIter("BRP")
RunInvalid == Fetches("Invalid") /\ RunIter("Invalid")

RunStep ==
    \/ RunHLT \/ RunINP \/ RunOUT \/ RunOTC \/ RunADD \/ RunSUB \/ RunSTA
    \/ RunLDA \/ RunBRA \/ RunBRZ \/ RunBRP \/ RunInvalid

Next == Assemble \/ RunStart \/ RunStep

Spec == Init /\ [][Next]_vars

\* =============================================================== claims
\* A step has just been taken from a state that fetched a word of kind k.
Stepped(k) == Fetches(k) /\ steps' = steps + 1 /\ phase' # "run_panic"

\* The cell an ADD, SUB, STA or LDA word w addresses, before the step.
Cell(w) == ram[w % 100]

\* C1: in step, when an ADD makes acc + memory[mar] exceed 999 the new acc
\* is -999 + (sum - 999) - 1; when a SUB makes acc - memory[mar] fall below
\* -999 the new acc is 999 - (-999 - difference) + 1; acc = 999 then ADD of
\* a cell holding 2 gives -998, acc = -999 then SUB of a cell holding 2
\* gives 998; a raw result within [-999, 999] is stored unchanged.
C1_AddStep ==
    Stepped("ADD") =>
        LET sum == acc + Cell(ram[pc])
        IN /\ sum > 999 => acc' = -999 + (sum - 999) - 1
           /\ (sum >= -999 /\ sum <= 999) => acc' = sum
           /\ (acc = 999 /\ Cell(ram[pc]) = 2) => acc' = -998
C1_SubStep ==
    Stepped("SUB") =>
        LET difference == acc - Cell(ram[pc])
        IN /\ difference < -999 => acc' = 999 - (-999 - difference) + 1
           /\ (difference >= -999 /\ difference <= 999) => acc' = difference
           /\ (acc = -999 /\ Cell(ram[pc]) = 2) => acc' = 998
C1_Wraparound == [][C1_AddStep /\ C1_SubStep]_vars

\* C1's case: INP of 999, then ADD of cell 2 holding 2, has left -998.
C1_Witness ==
    /\ phase = "running" /\ steps = 2
    /\ inputs = <<999>>
    /\ cir = 102 /\ mar = 2 /\ ram[2] = 2
    /\ acc = -998

\* run has been entered (its ExecutionState exists).
Ran == phase \in {"running", "halted", "run_err", "run_panic"}

\* C2: in every state reachable by run from the initial state, for any
\* memory image produced by assemble and any inputs, acc is within
\* [-999, 999].
C2_AccInRange == Ran => (acc >= -999 /\ acc <= 999)

\* The 0-based positions of the pairs of prog that carry the label named n.
Carriers(n, prog) == {i \in 0 .. Len(prog) - 1 : prog[i + 1].label = LBL(n)}

\* The least element of a non-empty set of integers.
Least(S) == CHOOSE i \in S : \A j \in S : i <= j

\* The value the claims give an operand: a literal is itself, a label the
\* position of the first pair that carries it.
Resolved(operand, prog) ==
    IF operand.tag = "Value"
    THEN operand.val
    ELSE Least(Carriers(operand.name, prog))

\* The base encodings as the claims list them.
ClaimBase(op) ==
    CASE op = "LDA" -> 500 [] op = "STA" -> 300 [] op = "ADD" -> 100
      [] op = "SUB" -> 200 [] op = "BRZ" -> 700 [] op = "BRP" -> 800
      [] op = "BRA" -> 600 [] op = "INP" -> 901 [] op = "OUT" -> 902
      [] op = "OTC" -> 922 [] op = "HLT" -> 0

\* The word the claims give an instruction of prog.
ClaimWord(instr, prog) ==
    CASE instr.op \in {"LDA", "STA", "ADD", "SUB", "BRZ", "BRP", "BRA"} ->
             ClaimBase(instr.op) + Resolved(instr.operand, prog)
      [] instr.op = "DAT" -> Resolved(instr.operand, prog)
      [] OTHER -> ClaimBase(instr.op)

\* C3: for every pair at 0-based position i, assemble sets word[i] to the
\* base encoding plus the resolved operand for LDA, STA, ADD, SUB, BRZ, BRP,
\* BRA, to the resolved operand alone for DAT (a label resolving to its
\* position), and to the base encoding alone for INP, OUT, OTC, HLT.
C3_Encoding ==
    assembled.res = "Ok" =>
        \A i \in 0 .. Len(program) - 1 :
            assembled.ram[i] = ClaimWord(program[i + 1].instr, program)

\* C3's case: DAT of a label carried by the second pair is the word 1, in
\* the first pair and in the second.
C3_Witness ==
    /\ assembled.res = "Ok"
    /\ program = <<Pair(LabelNone, Instr("DAT", OperandLabel("b"))),
                   Pair(LBL("b"), Instr("DAT", OperandLabel("b")))>>
    /\ assembled.ram[0] = 1
    /\ assembled.ram[1] = 1

\* The operands of prog's instructions that carry one.
OperandsOf(prog) ==
    {prog[i].instr.operand : i \in {j \in 1 .. Len(prog) :
                                       prog[j].instr.op \in OperandOps}}

\* C4: for every program of length at most 100 and every label attached to
\* a pair of it, an operand that references the label resolves to the
\* 0-based index of the pair carrying that label; a literal operand resolves
\* to itself.
C4_Positional ==
    Len(program) <= 100 =>
        /\ \A n \in LabelNames :
               Carriers(n, program) # {} =>
                   LET r == get_value(OperandLabel(n), program)
                   IN r.ok /\ r.val \in Carriers(n, program)
        /\ \A o \in OperandsOf(program) :
               o.tag = "Value" =>
                   LET r == get_value(o, program) IN r.ok /\ r.val = o.val

\* C4's case: the label b is carried by the second pair only, the first
\* pair references it, and assemble has encoded address 1.
C4_Witness ==
    /\ assembled.res = "Ok"
    /\ Len(program) = 2
    /\ Carriers("b", program) = {1}
    /\ program[1].instr = Instr("STA", OperandLabel("b"))
    /\ assembled.ram[0] = 301

\* The 0-based positions of the operands of prog that reference a label no
\* pair of prog carries.
Undefined(prog) ==
    {i \in 0 .. Len(prog) - 1 :
         /\ prog[i + 1].instr.op \in OperandOps
         /\ prog[i + 1].instr.operand.tag = "Label"
         /\ Carriers(prog[i + 1].instr.operand.name, prog) = {}}

\* C5: if an operand references a label no pair carries, assemble returns
\* an "Invalid label" error naming the label of the first such operand in
\* program order, returns no image, and nothing is executed.
C5_UndefinedLabel ==
    (Undefined(program) # {} /\ Len(program) <= 100 /\ phase # "parsed") =>
        LET first == Least(Undefined(program))
        IN /\ phase = "asm_err"
           /\ assembled.res = "Err"
           /\ assembled.ram = <<>>
           /\ err = [kind |-> "Invalid label",
                     label |-> program[first + 1].instr.operand.name,
                     word |-> 0]
           /\ steps = 0 /\ outputs = <<>> /\ inputs = <<>>
           /\ ~ENABLED Next

\* C5's case: two operands reference labels nobody carries, b before a, and
\* assemble has reported b.
C5_Witness ==
    /\ phase = "asm_err"
    /\ Len(program) = 2
    /\ program[1].instr.operand = OperandLabel("b")
    /\ program[2].instr.operand = OperandLabel("a")
    /\ Undefined(program) = {0, 1}
    /\ err.label = "b"

\* A call of step has just returned or panicked.
StepTaken == phase = "running" /\ steps' = steps + 1

\* The words the claims call undecodable.
ClaimInvalidWord(w) ==
    /\ w \notin {0, 901, 902, 922}
    /\ ~(w >= 100 /\ w <= 399)
    /\ ~(w >= 500 /\ w <= 899)

\* C6: a step that fetches a word that is none of 0, 901, 902, 922 and is
\* outside 100-399 and 500-899 returns an "Invalid instruction" error
\* carrying that word (and no other step does), changing neither acc nor
\* memory nor the outputs; run returns that error and takes no further step.
C6_Step ==
    StepTaken =>
        /\ ClaimInvalidWord(ram[pc]) =>
               /\ phase' = "run_err"
               /\ err' = [kind |-> "Invalid instruction", label |-> "",
                          word |-> ram[pc]]
               /\ acc' = acc /\ ram' = ram /\ outputs' = outputs
        /\ err'.kind = "Invalid instruction" => ClaimInvalidWord(ram[pc])
C6_InvalidInstruction == [][C6_Step /\ phase # "run_err"]_vars

\* C6's case: after an input of 2 and its output, the negative word -2 was
\* fetched and run has returned the error, acc and the output kept.
C6_Witness ==
    /\ phase = "run_err"
    /\ err = [kind |-> "Invalid instruction", label |-> "", word |-> -2]
    /\ acc = 2
    /\ outputs = <<OutInt(2)>>

\* C7: an INP step that receives a value outside [-999, 999] returns a
\* "Number out of range" error and keeps acc, run stops with that error and
\* emits nothing after it while the earlier outputs remain; a value inside
\* [-999, 999] becomes the new acc.
C7_Step ==
    (StepTaken /\ ram[pc] = 901) =>
        /\ Len(inputs') = Len(inputs) + 1
        /\ LET v == inputs'[Len(inputs')]
           IN IF v < -999 \/ v > 999
              THEN /\ phase' = "run_err"
                   /\ err'.kind = "Number out of range"
                   /\ acc' = acc
                   /\ outputs' = outputs
              ELSE /\ phase' = "running"
                   /\ err' = NoError
                   /\ acc' = v
C7_InputRange == [][C7_Step /\ phase # "run_err"]_vars

\* C7's case: 2 was read and printed, then 1000 was refused: acc is still
\* 2 and the output remains.
C7_Witness ==
    /\ phase = "run_err"
    /\ err.kind = "Number out of range"
    /\ inputs = <<2, 1000>>
    /\ acc = 2
    /\ outputs = <<OutInt(2)>>

\* C8: run stops with success in exactly two cases, checked after every
\* step: the step fetched word 0, which sets pc to -1, or pc is greater
\* than 99 after the step. Then run returns success and takes no further
\* step; in every other case without an error it takes another step.
C8_Step ==
    (StepTaken /\ phase' \notin {"run_err", "run_panic"}) =>
        /\ phase' \in {"halted", "running"}
        /\ phase' = "halted" <=> (ram[pc] = 0 \/ pc' > 99)
        /\ pc' = -1 <=> ram[pc] = 0
        /\ phase' = "halted" => err' = NoError
        /\ phase' = "running" => (pc' >= 0 /\ pc' <= 99)
C8_HaltConditions == [][C8_Step /\ phase # "halted"]_vars

\* C8's case: the hundredth step executed the last cell, not a HLT, and run
\* has returned success with pc past the memory.
C8_Witness ==
    /\ phase = "halted"
    /\ pc = 100 /\ mar = 99 /\ cir # 0
    /\ err = NoError

\* C9: assembling and running a program that consists solely of HLT halts
\* after exactly one step, emits no output, requests no input, returns
\* success, and leaves pc at -1 with acc = 0.
C9_HltOnly ==
    (Len(program) = 1 /\ program[1].instr.op = "HLT") =>
        /\ phase \in {"parsed", "assembled", "running", "halted"}
        /\ steps <= 1
        /\ phase = "halted" <=> steps = 1
        /\ phase = "halted" => (pc = -1 /\ err = NoError)
        /\ outputs = <<>> /\ inputs = <<>> /\ acc = 0
        /\ phase # "halted" => ENABLED Next

\* C9's case: the program HLT has been assembled and run to its end.
C9_Witness ==
    /\ program = <<Pair(LabelNone, Bare("HLT"))>>
    /\ phase = "halted"
    /\ steps = 1

\* assemble or run has returned or panicked.
Finished ==
    phase \in {"asm_err", "asm_panic", "halted", "run_err", "run_panic"}

\* No pair of prog is a HLT.
NoHLT(prog) == \A i \in 1 .. Len(prog) : prog[i].instr.op # "HLT"

\* Every branch of prog goes to a later position.
NoBackwardBranch(prog) ==
    \A i \in 0 .. Len(prog) - 1 :
        prog[i + 1].instr.op \in {"BRA", "BRZ", "BRP"} =>
            /\ prog[i + 1].instr.operand.tag = "Value"
            /\ prog[i + 1].instr.operand.val > i

\* C10 as claimed: every program of exactly 100 instructions that contains
\* no HLT and no backward branch halts by falling off memory after exactly
\* 100 steps, without error (run returns success with pc = 100).
C10_Original ==
    (Len(program) = 100 /\ NoHLT(program) /\ NoBackwardBranch(program)
         /\ Finished) =>
        (phase = "halted" /\ pc = 100 /\ steps = 100 /\ err = NoError)

\* Every pair of prog is INP, OUT, OTC, or an ADD, SUB or LDA of an address
\* in 0..99: no HLT, no DAT, no STA, no branch.
StraightLine(prog) ==
    \A i \in 1 .. Len(prog) :
        \/ prog[i].instr.op \in {"INP", "OUT", "OTC"}
        \/ /\ prog[i].instr.op \in {"ADD", "SUB", "LDA"}
           /\ prog[i].instr.operand.tag = "Value"
           /\ prog[i].instr.operand.val \in 0 .. 99

\* Every value get_input has returned is within [-999, 999].
InputsInRange == \A k \in 1 .. Len(inputs) : inputs[k] \in -999 .. 999

\* C10 amended: every program of exactly 100 instructions, each of them
\* INP, OUT, OTC, or ADD, SUB or LDA of an address in 0..99, run with inputs
\* within [-999, 999], takes one step per cell and halts by falling off
\* memory after exactly 100 steps, without error, with pc = 100.
C10_StraightLine ==
    (Len(program) = 100 /\ StraightLine(program) /\ InputsInRange) =>
        /\ phase \in {"parsed", "assembled", "running", "halted"}
        /\ phase = "running" =>
               /\ pc = steps /\ steps < 100
               /\ Kind(ram[pc]) \in {"INP", "OUT", "OTC", "ADD", "SUB", "LDA"}
        /\ phase = "halted" => (pc = 100 /\ steps = 100 /\ err = NoError)

\* C10's case: a program of INP and 99 OUT has read 2, printed it 99 times
\* and fallen off the memory at the hundredth step.
C10_Witness ==
    /\ Len(program) = 100 /\ StraightLine(program)
    /\ inputs = <<2>>
    /\ phase = "halted" /\ pc = 100 /\ steps = 100
    /\ Len(outputs) = 99

\* C11 as claimed: assembling then running the sum program (INP; STA x; INP;
\* ADD x; OUT; then halt, with x a DAT cell) outputs exactly one value, the
\* decimal integer a+b, for the two inputs a and b it reads, and run returns
\* success.
C11_Original ==
    (program = SumProgram /\ Finished) =>
        /\ phase = "halted" /\ err = NoError
        /\ Len(inputs) = 2
        /\ outputs = <<OutInt(inputs[1] + inputs[2])>>

\* C11 amended: for two inputs a and b within [-999, 999] whose sum is
\* within [-999, 999] as well, the sum program outputs exactly one value,
\* the decimal integer a+b (7 for 3 and 4, 3 for 1 and 2), after reading
\* exactly a and b, and run returns success; it prints nothing before its
\* OUT, the fifth step, and always comes to its end.
C11_SumInRange ==
    (program = SumProgram /\ InputsInRange) =>
        /\ phase \in {"parsed", "assembled", "running", "halted"}
        /\ phase # "halted" => ENABLED Next
        /\ steps < 5 => outputs = <<>>
        /\ phase = "halted" =>
               /\ err = NoError /\ Len(inputs) = 2 /\ Len(outputs) = 1
               /\ (inputs[1] + inputs[2] \in -999 .. 999) =>
                      outputs = <<OutInt(inputs[1] + inputs[2])>>
               /\ inputs = <<3, 4>> => outputs = <<OutInt(7)>>
               /\ inputs = <<1, 2>> => outputs = <<OutInt(3)>>

\* C11's case: the sum program has read 3 and 4, printed 7 and halted.
C11_Witness ==
    /\ program = SumProgram
    /\ phase = "halted"
    /\ inputs = <<3, 4>>
    /\ outputs = <<OutInt(7)>>

\* The 0-based positions of the LDA, STA, ADD, SUB, BRZ, BRP and BRA of prog
\* whose literal operand is outside [0, 99].
FarOperands(prog) ==
    {i \in 0 .. Len(prog) - 1 :
         /\ prog[i + 1].instr.op \in
                {"LDA", "STA", "ADD", "SUB", "BRZ", "BRP", "BRA"}
         /\ prog[i + 1].instr.operand.tag = "Value"
         /\ prog[i + 1].instr.operand.val \notin 0 .. 99}

\* C12: an LDA, STA, ADD, SUB, BRZ, BRP or BRA whose resolved operand is
\* outside [0, 99] leads to a reported failure at assembly or at execution:
\* once assemble and run have returned, one of them has reported a failure,
\* and the program was not silently accepted and run to success.
C12_FarAddressFails ==
    (FarOperands(program) # {} /\ Finished) =>
        phase \in {"asm_err", "asm_panic", "run_err", "run_panic"}

\* The word w is an ADD, SUB, STA, LDA, BRA, BRZ or BRP, by the ranges of
\* the decode table.
HasAddressPart(w) == (w >= 100 /\ w <= 399) \/ (w >= 500 /\ w <= 899)

\* The base of such a word: 100, 200, 300, 500, 600, 700 or 800.
BaseOf(w) == (w \div 100) * 100

\* C13: every step first sets mar to the old pc, then pc to old pc + 1, then
\* mdr and cir to memory[old pc], before decoding. After a step that
\* executes INP, OUT, OTC, ADD, SUB, STA, LDA or a BRZ/BRP whose condition is
\* false, pc is old pc + 1 (as it is after a word that does not decode); for
\* ADD, SUB, STA, LDA, BRA, BRZ, BRP mar is afterwards the word's address
\* part, and for INP, OUT, OTC, HLT mar stays the fetch address.
C13_Step ==
    StepTaken =>
        LET w == ram[pc]
        IN /\ cir' = w /\ mdr' = w
           /\ ( \/ w \in {901, 902, 922}
                \/ (w >= 100 /\ w <= 399) \/ (w >= 500 /\ w <= 599)
                \/ (w >= 700 /\ w <= 799 /\ acc # 0)
                \/ (w >= 800 /\ w <= 899 /\ acc <= 0)
                \/ ClaimInvalidWord(w) ) => pc' = pc + 1
           /\ HasAddressPart(w) => mar' = w - BaseOf(w)
           /\ ~HasAddressPart(w) => mar' = pc
C13_FetchOrder == [][C13_Step]_vars

\* C13's case: the second step fetched OUT from cell 1 after an INP: mar
\* is the fetch address 1 and pc is already 2.
C13_Witness ==
    /\ phase = "running" /\ steps = 2
    /\ cir = 902 /\ mdr = 902
    /\ mar = 1 /\ pc = 2

\* C14: a word 600+a sets pc to a unconditionally; a word 700+a sets pc to
\* a if and only if acc = 0; a word 800+a sets pc to a if and only if
\* acc > 0 (acc = 0 does not take a BRP branch); when the condition is false
\* pc stays at old pc + 1. No branch step changes acc, memory or the outputs.
C14_Step ==
    StepTaken =>
        LET w == ram[pc]
        IN /\ (w >= 600 /\ w <= 699) => pc' = w - 600
           /\ (w >= 700 /\ w <= 799) =>
                  pc' = IF acc = 0 THEN w - 700 ELSE pc + 1
           /\ (w >= 800 /\ w <= 899) =>
                  pc' = IF acc > 0 THEN w - 800 ELSE pc + 1
           /\ (w >= 600 /\ w <= 899) =>
                  (acc' = acc /\ ram' = ram /\ outputs' = outputs)
C14_Branches == [][C14_Step]_vars

\* C14's case: BRP 3 in cell 0 was executed with acc = 0 and was not taken.
C14_Witness ==
    /\ phase = "running" /\ steps = 1
    /\ cir = 803 /\ mar = 3
    /\ acc = 0
    /\ pc = 1

\* C15: memory is mutated only by STA: a step that executes a word in
\* 300-399 changes exactly the one cell memory[cir - 300] to the current acc
\* and leaves acc and every other cell unchanged; a step that executes any
\* other word (including one that fails) leaves all 100 memory cells
\* unchanged. acc changes only in INP, ADD, SUB and LDA steps.
C15_Step ==
    StepTaken =>
        LET w == ram[pc]
        IN /\ (w >= 300 /\ w <= 399) =>
                  /\ ram'[w - 300] = acc
                  /\ \A a \in 0 .. 99 : a # w - 300 => ram'[a] = ram[a]
                  /\ acc' = acc
           /\ ~(w >= 300 /\ w <= 399) => \A a \in 0 .. 99 : ram'[a] = ram[a]
           /\ acc' # acc =>
                  (w = 901 \/ (w >= 100 /\ w <= 299) \/ (w >= 500 /\ w <= 599))
C15_OnlyStaWrites == [][C15_Step]_vars

\* C15's case: after an input of 2, STA 2 has put it in cell 2, which held
\* 0, and acc is still 2.
C15_Witness ==
    /\ phase = "running" /\ steps = 2
    /\ cir = 302 /\ mar = 2
    /\ assembled.ram[2] = 0
    /\ ram[2] = 2 /\ acc = 2

\* The character code the claims give OTC: the one value in 0..255 that
\* differs from a by a multiple of 256.
LowByte(a) == CHOOSE c \in 0 .. 255 : (a - c) % 256 = 0

\* C16: an OUT step (word 902) emits exactly one output, the current acc
\* tagged as a decimal integer; an OTC step (word 922) emits exactly one
\* output, the character whose code is acc modulo 256 (also for negative
\* acc), tagged as a character. Neither changes acc or memory, every other
\* kind of step emits no output, and outputs appear in the order the steps
\* execute.
C16_Step ==
    StepTaken =>
        LET w == ram[pc]
        IN /\ w = 902 =>
                  /\ outputs' = Append(outputs, [tag |-> "Int", val |-> acc])
                  /\ acc' = acc /\ ram' = ram
           /\ w = 922 =>
                  /\ outputs' =
                         Append(outputs, [tag |-> "Char", val |-> LowByte(acc)])
                  /\ acc' = acc /\ ram' = ram
           /\ w \notin {902, 922} => outputs' = outputs
C16_Outputs == [][C16_Step]_vars

\* C16's case: with acc = -999 two OTC steps have emitted the character 25
\* (-999 = -4 * 256 + 25) twice.
C16_Witness ==
    /\ phase = "running" /\ steps = 3
    /\ inputs = <<-999>> /\ acc = -999
    /\ cir = 922
    /\ outputs = <<[tag |-> "Char", val |-> 25], [tag |-> "Char", val |-> 25]>>

\* C17: when two or more pairs of a program carry the same label name,
\* every operand that references that name resolves to the smallest position
\* carrying it (first match wins) and assemble encodes that position,
\* assembly succeeds without a duplicate-label error (every referenced label
\* being carried, and the program fitting the memory), and an unlabeled pair
\* never matches a label reference: a name no pair carries does not resolve.
C17_FirstMatch ==
    /\ \A n \in LabelNames :
           LET r == get_value(OperandLabel(n), program)
           IN /\ Carriers(n, program) # {} =>
                     (r.ok /\ r.val = Least(Carriers(n, program)))
              /\ Carriers(n, program) = {} => ~r.ok
    /\ (phase # "parsed" /\ Len(program) <= 100 /\ Undefined(program) = {}) =>
           /\ assembled.res = "Ok"
           /\ \A i \in 0 .. Len(program) - 1 :
                  LET o == program[i + 1].instr.operand
                  IN (o.tag = "Label" /\ o.name \in LabelNames) =>
                         assembled.ram[i] % 100 = Least(Carriers(o.name, program))

\* C17's case: both pairs carry the label b, the second is DAT b, and
\* assemble has given it the word 0, the position of the first.
C17_Witness ==
    /\ assembled.res = "Ok"
    /\ Len(program) = 2
    /\ Carriers("b", program) = {0, 1}
    /\ program[2].instr = Instr("DAT", OperandLabel("b"))
    /\ assembled.ram[1] = 0

\* The value in [-999, 999] congruent to x modulo 1999.
Ring(x) == ((x + 999) % 1999) - 999

\* What the ring gives for a raw result x, with the two landing rules
\* spelt out: past +999 by diff at -1000 + diff, past -999 by diff at
\* 1000 - diff.
Lands(x, result) ==
    /\ result = Ring(x)
    /\ result >= -999 /\ result <= 999
    /\ x > 999 => result = -1000 + (x - 999)
    /\ x < -999 => result = 1000 - (-999 - x)

\* Memory values the arithmetic is tried on from every accumulator reached.
RingSamples == {-999, -998, -500, -2, -1, 0, 1, 2, 500, 998, 999}

\* C18: the accumulator arithmetic is a cyclic ring of size 1999 in both
\* directions for both operations: for every acc and memory value in
\* [-999, 999], the acc after ADD (respectively SUB) is the unique value in
\* [-999, 999] congruent to acc + value (respectively acc - value) modulo
\* 1999, including ADD of a negative value that goes below -999 and SUB of
\* a negative value that goes above 999; overflowing past +999 by diff lands
\* at -1000 + diff and underflowing past -999 by diff lands at 1000 - diff.
C18_Step ==
    (acc >= -999 /\ acc <= 999) =>
        /\ \A v \in RingSamples :
               /\ Lands(acc + v, WrapAfterAdd(acc + v))
               /\ Lands(acc - v, WrapAfterSub(acc - v))
        /\ (StepTaken /\ Cell(ram[pc]) >= -999 /\ Cell(ram[pc]) <= 999) =>
               /\ (ram[pc] >= 100 /\ ram[pc] <= 199) =>
                      Lands(acc + Cell(ram[pc]), acc')
               /\ (ram[pc] >= 200 /\ ram[pc] <= 299) =>
                      Lands(acc - Cell(ram[pc]), acc')
C18_Ring == [][C18_Step]_vars

\* C18's case: acc = 999, then SUB of cell 2 holding -2: the raw result
\* 1001 is past +999 by 2 and lands at -998.
C18_Witness ==
    /\ phase = "running" /\ steps = 2
    /\ inputs = <<999>>
    /\ cir = 202 /\ ram[2] = -2
    /\ acc = -998

\* Every word of the image m is within [-999, 999].
ImageInRange(m) == \A a \in 0 .. 99 : m[a] >= -999 /\ m[a] <= 999

\* C19: if every word of the initial memory image is within [-999, 999],
\* then after any sequence of steps with any inputs, acc and every memory
\* word are within [-999, 999].
C19_RangeClosure ==
    (Ran /\ ImageInRange(assembled.ram)) =>
        (acc >= -999 /\ acc <= 999 /\ ImageInRange(ram))

\* C19's case: INP of 999, ADD of cell 2, which holds the word 302 of the
\* STA 2 that follows, and that STA: the wrapped sum -698 is in acc and in
\* cell 2.
C19_Witness ==
    /\ phase = "running" /\ steps = 3
    /\ inputs = <<999>>
    /\ assembled.ram[2] = 302
    /\ acc = -698 /\ ram[2] = -698

\* C20: in every run from the initial state every memory access is within
\* bounds: at the start of each step pc is in [0, 99], and every operand
\* address mar derived from the instruction word (cir minus its base) is in
\* [0, 99]; after a step pc is either -1, in [0, 99], or exactly 100, and
\* run never executes a step with pc = -1 or pc > 99 (no step panics on an
\* index).
C20_Step ==
    /\ phase = "running" => (pc >= 0 /\ pc <= 99)
    /\ phase' = "running" => (pc' >= 0 /\ pc' <= 99)
    /\ (pc = -1 \/ pc > 99) => steps' = steps
    /\ steps' # steps =>
           /\ phase = "running" /\ steps' = steps + 1
           /\ phase' # "run_panic"
           /\ HasAddressPart(ram[pc]) =>
                  /\ mar' = ram[pc] - BaseOf(ram[pc])
                  /\ mar' >= 0 /\ mar' <= 99
           /\ mar' >= 0 /\ mar' <= 99
           /\ pc' = -1 \/ (pc' >= 0 /\ pc' <= 99) \/ pc' = 100
C20_InBounds == [][C20_Step]_vars

\* C20's case: the hundredth step executed ADD 2 in cell 99: mar is 2, pc
\* is exactly 100, and run has stopped there.
C20_Witness ==
    /\ phase = "halted" /\ steps = 100
    /\ cir = 102 /\ mar = 2
    /\ pc = 100

\* C21: for a program of n pairs with n at most 100, assemble writes only
\* cells 0..n-1 of the image and every cell from n to 99 is 0; a run that
\* reaches a cell not filled by the program, or a cell holding DAT 0, or a
\* cell that STA set to 0, executes it as HLT and halts with success.
C21_Step ==
    /\ (assembled.res = "Ok" /\ Len(program) <= 100) =>
           \A a \in Len(program) .. 99 : assembled.ram[a] = 0
    /\ (StepTaken /\ ram[pc] = 0) =>
           /\ phase' = "halted" /\ err' = NoError
           /\ pc' = -1
           /\ acc' = acc /\ ram' = ram /\ outputs' = outputs
C21_ZeroFill == [][C21_Step]_vars

\* C21's case: a program of two pairs, neither a branch, has run past its
\* end: the third step fetched the unfilled cell 2 and run has returned
\* success.
C21_Witness ==
    /\ Len(program) = 2
    /\ phase = "halted" /\ err = NoError
    /\ Kind(assembled.ram[0]) \in {"INP", "LDA"}
    /\ Kind(assembled.ram[1]) \in {"OUT", "ADD"}
    /\ steps = 3 /\ mar = 2 /\ cir = 0 /\ pc = -1

\* The image m holds no word in 600-899 (no branch) and no word in 300-399
\* (no STA).
NoBranchNoSta(m) ==
    \A a \in 0 .. 99 : ~(m[a] >= 600 /\ m[a] <= 899) /\ ~(m[a] >= 300 /\ m[a] <= 399)

\* run has returned: by HLT or by falling off memory, or with an error.
Returned == phase \in {"halted", "run_err"}

\* C22 as claimed: if the memory image contains no word in 600-899 and no
\* word in 300-399, then pc increases by exactly 1 on every step and run
\* terminates, by HLT, by error or by falling off memory, after at most 100
\* steps, for any inputs.
C22_OriginalStep ==
    (Ran /\ NoBranchNoSta(assembled.ram)) =>
        /\ StepTaken => pc' = pc + 1
        /\ phase = "running" => steps < 100
        /\ Returned => steps <= 100
C22_Original == [][C22_OriginalStep]_vars

\* C22 amended: if the memory image contains no word in 600-899 and no word
\* in 300-399, then memory never changes, pc increases by exactly 1 on
\* every step that does not execute HLT (the word 0, which sets pc to -1),
\* the k-th step executes cell k - 1, and run terminates, by HLT, by error
\* or by falling off memory, after at most 100 steps, for any inputs; a step
\* that leaves pc at or below its old value without ending the run executes
\* a branch word.
C22_Step ==
    /\ (Ran /\ NoBranchNoSta(assembled.ram)) =>
           /\ ram = assembled.ram
           /\ StepTaken => (IF ram[pc] = 0 THEN pc' = -1 ELSE pc' = pc + 1)
           /\ phase = "running" => (pc = steps /\ steps < 100)
           /\ Returned => steps <= 100
           /\ phase # "run_panic"
    /\ (StepTaken /\ phase' = "running" /\ pc' <= pc) =>
           (ram[pc] >= 600 /\ ram[pc] <= 899)
C22_StraightRun == [][C22_Step]_vars

\* C22's case: an image without branch and STA words, LDA 2 followed by 99
\* OTC: the run took one step per cell and fell off the memory at the
\* hundredth.
C22_Witness ==
    /\ phase = "halted" /\ steps = 100
    /\ NoBranchNoSta(ram)
    /\ ram[0] = 502 /\ cir = 922
    /\ mar = 99 /\ pc = 100

\* The program of the one unlabelled instruction X with the literal operand
\* a, or of the bare instruction X.
Single(X, a) ==
    <<Pair(LabelNone,
           IF X \in NoOperandOps THEN Bare(X) ELSE Instr(X, OperandValue(a)))>>

\* What step makes of cell 0 of the image assemble produces for Single(X, a),
\* from run's initial state with the accumulator at v.
DecodesOwn(X, a, v) ==
    LET img == assemble(Single(X, a), TRUE)
        r == step(MkState(0, 0, 0, 0, v, img.ram), 2, TRUE)
        old == img.ram[a]
    IN /\ img.res = "Ok"
       /\ Kind(img.ram[0]) = X
       /\ r.res = "Ok"
       /\ X \in {"ADD", "SUB", "STA", "LDA", "BRA", "BRZ", "BRP"} =>
              r.st.mar = a
       /\ CASE X = "ADD" -> r.st.acc = Ring(v + old)
            [] X = "SUB" -> r.st.acc = Ring(v - old)
            [] X = "STA" -> r.st.ram[a] = v
            [] X = "LDA" -> r.st.acc = old
            [] X = "BRA" -> r.st.pc = a
            [] X = "BRZ" -> r.st.pc = (IF v = 0 THEN a ELSE 1)
            [] X = "BRP" -> r.st.pc = (IF v > 0 THEN a ELSE 1)
            [] X = "INP" -> r.read /\ r.st.acc = 2
            [] X = "OUT" -> r.out = <<[tag |-> "Int", val |-> v]>>
            [] X = "OTC" -> r.out = <<[tag |-> "Char", val |-> LowByte(v)]>>
            [] X = "HLT" -> r.st.pc = -1

\* C23: assembly and decoding agree: for every instruction X in {ADD, SUB,
\* STA, LDA, BRA, BRZ, BRP} and every resolved address a in [0, 99], the
\* word assemble produces for X with operand a is decoded by step as the
\* same instruction X with mar = a; and the words assemble produces for INP,
\* OUT, OTC and HLT are decoded as INP, OUT, OTC and HLT. Tried for the
\* address the run stands at and the accumulator it holds, and on every
\* pair of the program when its own run fetches it.
C23_Agreement ==
    /\ (phase = "running" /\ acc >= -999 /\ acc <= 999) =>
           \A X \in {"ADD", "SUB", "STA", "LDA", "BRA", "BRZ", "BRP",
                     "INP", "OUT", "OTC", "HLT"} : DecodesOwn(X, pc, acc)
    /\ (phase = "running" /\ pc < Len(program) /\ ram[pc] = assembled.ram[pc]) =>
           LET i == program[pc + 1].instr
           IN /\ i.op \in {"INP", "OUT", "OTC", "HLT"} => Kind(ram[pc]) = i.op
              /\ ( /\ i.op \in {"ADD", "SUB", "STA", "LDA", "BRA", "BRZ", "BRP"}
                   /\ pc \notin FarOperands(program) ) =>
                     /\ Kind(ram[pc]) = i.op
                     /\ ram[pc] - BaseOf(ram[pc]) = Resolved(i.operand, program)

\* C23's case: LDA b, with b the label of the second pair, was assembled to
\* 501 and the first step has decoded it as LDA with mar = 1, loading the
\* HLT word of that pair.
C23_Witness ==
    /\ phase = "running" /\ steps = 1
    /\ Len(program) = 2
    /\ program[1].instr = Instr("LDA", OperandLabel("b"))
    /\ Carriers("b", program) = {1}
    /\ cir = 501 /\ mar = 1
    /\ acc = ram[1]
====
